---- MODULE Spec2Model ----
(***************************************************************************)
(* A model of PyUpdater's persistence stack:                               *)
(*   pyupdater/utils/storage.py  JSONStore  (the document store)           *)
(*   pyupdater/utils/storage.py  Storage    (the shared registry)          *)
(*   pyupdater/utils/config.py   Config     (the settings object)          *)
(* Python dicts are functions with an explicit domain, Python values are   *)
(* tagged records, and every method is an operator that returns the new    *)
(* objects together with what the call returned or raised.                 *)
(***************************************************************************)
EXTENDS Integers, Sequences, FiniteSets, TLC

VARIABLES
    disk,       \* the settings file <cwd>/.pyupdater/config.pyu
    artifact,   \* the generated client_config.py
    store,      \* the live JSONStore object (for a Storage: Storage.db)
    insts,      \* the names bound to constructed Storage instances
    cls,        \* Storage.__dict__: the attributes set on the class
    cfg,        \* the live Config object (a dict whose __dict__ is itself)
    last,       \* history: the last call, its arguments and its outcome
    pairWrites, \* history: file writes of the last two calls when both were
                \* completed sync(force=False) calls with equal options, else -1
    reads,      \* history, JSONStore used on its own: its disk reads
    accessed,   \* history, JSONStore used on its own: accessor calls made on it
    loadStatus, \* history, JSONStore used on its own: how its load attempt ended
    mutated,    \* history, JSONStore used on its own: a caller's set or delete
                \* changed the entries since the last completed write
    saved,      \* history: key -> value of the successful saves of this process,
                \* who saved it, and whether no Storage was constructed since
    setKeys,    \* history: the keys passed to Storage.save in this process
    roundTrip   \* history: the settings record save_config wrote (valid while the
                \* file is as that save left it) and how far the process has got
                \* from its start towards a load into a new Config

vars == <<disk, artifact, store, insts, cls, cfg, last, pairWrites, reads, accessed, loadStatus,
          mutated, saved, setKeys, roundTrip>>

-----------------------------------------------------------------------------
(* Bounds *)

\* the history counters reads and accessed saturate here
MaxCount == 2

-----------------------------------------------------------------------------
(* Python dicts *)

EmptyMap == [k \in {} |-> TRUE]

Put(m, k, v) == [x \in (DOMAIN m) \cup {k} |-> IF x = k THEN v ELSE m[x]]

Remove(m, k) == [x \in (DOMAIN m) \ {k} |-> m[x]]

\* dict.update / MutableMapping.update: the entries of n win
Update(m, n) == [x \in (DOMAIN m) \cup (DOMAIN n) |-> IF x \in DOMAIN n THEN n[x] ELSE m[x]]

Restrict(m, ks) == [x \in (DOMAIN m) \cap ks |-> m[x]]

\* dict.get(k): None when the key is absent
NoneV == [t |-> "none", s |-> "", m |-> EmptyMap]

Get(m, k) == IF k \in DOMAIN m THEN m[k] ELSE NoneV

Bump(n) == IF n < MaxCount THEN n + 1 ELSE n

\* the element of a one-element set: Only({e(x) : x \in {call}}) names the
\* result of a call once and uses it in e
Only(S) == CHOOSE x \in S : TRUE

-----------------------------------------------------------------------------
(* Python values *)

Str(s) == [t |-> "str", s |-> s, m |-> EmptyMap]

Num(s) == [t |-> "int", s |-> s, m |-> EmptyMap]

Bool(b) == [t |-> "bool", s |-> IF b THEN "true" ELSE "false", m |-> EmptyMap]

Dict(m) == [t |-> "dict", s |-> "", m |-> m]

\* a tuple of scalars, named by its content
Tuple(s) == [t |-> "tuple", s |-> s, m |-> EmptyMap]

List(s) == [t |-> "list", s |-> s, m |-> EmptyMap]

\* a function or bound method
Callable(s) == [t |-> "callable", s |-> s, m |-> EmptyMap]

\* an object json cannot encode (a set, a class instance)
Object(s) == [t |-> "object", s |-> s, m |-> EmptyMap]

\* a JSONStore instance held as a value
StoreRef == [t |-> "JSONStore", s |-> "", m |-> EmptyMap]

\* a Storage instance held as a value
StorageRef == [t |-> "Storage", s |-> "", m |-> EmptyMap]

-----------------------------------------------------------------------------
(* json.dumps / json.load *)

RECURSIVE JsonSerializable(_)
\* json.dumps raises TypeError on anything but str, int, bool, None, list,
\* tuple and dict
JsonSerializable(v) ==
    CASE v.t \in {"str", "int", "bool", "none", "list", "tuple"} -> TRUE
      [] v.t = "dict" -> \A k \in DOMAIN v.m : JsonSerializable(v.m[k])
      [] OTHER -> FALSE

RECURSIVE JsonRoundTrip(_)
\* json.load(json.dumps(v)): a tuple comes back as a list
JsonRoundTrip(v) ==
    CASE v.t = "tuple" -> List(v.s)
      [] v.t = "dict" -> Dict([k \in DOMAIN v.m |-> JsonRoundTrip(v.m[k])])
      [] OTHER -> v

\* the document json.dumps(data, ensure_ascii=False, indent=2) writes
JsonDocument(data) == [k \in DOMAIN data |-> JsonRoundTrip(data[k])]

DataSerializable(data) == \A k \in DOMAIN data : JsonSerializable(data[k])

-----------------------------------------------------------------------------
(* Files *)

Missing == [kind |-> "missing", doc |-> EmptyMap]

\* bytes that are not a JSON object
Malformed == [kind |-> "malformed", doc |-> EmptyMap]

\* opened with mode 'w' and never completely written
Truncated == [kind |-> "truncated", doc |-> EmptyMap]

Doc(d) == [kind |-> "doc", doc |-> d]

-----------------------------------------------------------------------------
(* JSONStore *)

NoStore == [exists |-> FALSE, json_kw |-> "none", data |-> EmptyMap,
            synced_kw |-> "none", needs_sync |-> FALSE, loaded |-> FALSE]

\* `a or b` on keyword dicts: None and {} are falsy
KwOr(a, b) == IF a \in {"none", "empty"} THEN b ELSE a

\* JSONStore.__init__
JSONStore_init(json_kw) ==
    [exists |-> TRUE,
     json_kw |-> KwOr(json_kw, "empty"),
     data |-> EmptyMap,
     synced_kw |-> "none",
     needs_sync |-> FALSE,
     loaded |-> FALSE]

\* a load that forgets the flag when the read fails
Mut_load_flag_on_success(s, f) ==
    IF f.kind = "doc"
    THEN [s |-> [s EXCEPT !.loaded = TRUE,
                          !.data = Update(s.data, f.doc),
                          !.needs_sync = s.needs_sync \/ DOMAIN f.doc # {}],
          err |-> "none", failed |-> FALSE]
    ELSE [s |-> s, err |-> "none", failed |-> TRUE]

\* a load that lets the read error out
Mut_load_raises(s, f) ==
    IF f.kind = "doc"
    THEN [s |-> [s EXCEPT !.loaded = TRUE,
                          !.data = Update(s.data, f.doc),
                          !.needs_sync = s.needs_sync \/ DOMAIN f.doc # {}],
          err |-> "none", failed |-> FALSE]
    ELSE [s |-> [s EXCEPT !.loaded = TRUE], err |-> "LoadError", failed |-> TRUE]

\* JSONStore._load_data_from_disk: the flag is set first; self.update stores
\* every record through __setitem__, which marks the store as needing a sync;
\* any exception (no file, no JSON) is logged and dropped
_load_data_from_disk(s, f) ==
    IF f.kind = "doc"
    THEN [s |-> [s EXCEPT !.loaded = TRUE,
                          !.data = Update(s.data, f.doc),
                          !.needs_sync = s.needs_sync \/ DOMAIN f.doc # {}],
          err |-> "none", failed |-> FALSE]
    ELSE [s |-> [s EXCEPT !.loaded = TRUE], err |-> "none", failed |-> TRUE]

\* `if self._data_from_disk_loaded is False: self._load_data_from_disk()`
EnsureLoaded(s, f) ==
    IF s.loaded
    THEN [s |-> s, err |-> "none", failed |-> FALSE, read |-> FALSE]
    ELSE Only({[s |-> r.s, err |-> r.err, failed |-> r.failed, read |-> TRUE] :
                  r \in {_load_data_from_disk(s, f)}})

\* what a JSONStore call gives back: the store, the file, the outcome
\* ("ok", "True", "False" or the exception), the value returned, whether the
\* call read the file and whether the read failed, whether it wrote the file
\* completely, whether it started a write that failed
Outcome(s, f, res, val, ld, wrote, wfail) ==
    [s |-> s, f |-> f, res |-> res, val |-> val,
     read |-> ld.read, failed |-> ld.failed, wrote |-> wrote, wfail |-> wfail]

\* JSONStore.__getitem__
JSONStore_getitem(s, f, key) ==
    Only({IF ld.err # "none" THEN Outcome(ld.s, f, ld.err, NoneV, ld, FALSE, FALSE)
          ELSE IF key \in DOMAIN ld.s.data
               THEN Outcome(ld.s, f, "ok", ld.s.data[key], ld, FALSE, FALSE)
               ELSE Outcome(ld.s, f, "KeyError", NoneV, ld, FALSE, FALSE) :
             ld \in {EnsureLoaded(s, f)}})

\* JSONStore.__setitem__
JSONStore_setitem(s, f, key, value) ==
    Only({IF ld.err # "none" THEN Outcome(ld.s, f, ld.err, NoneV, ld, FALSE, FALSE)
          ELSE Outcome([ld.s EXCEPT !.data = Put(ld.s.data, key, value),
                                    !.needs_sync = TRUE],
                       f, "ok", NoneV, ld, FALSE, FALSE) :
             ld \in {EnsureLoaded(s, f)}})

\* a delete that marks the store before it looks for the key
Mut_delitem_marks_first(s, f, key) ==
    Only({IF ld.err # "none" THEN Outcome(ld.s, f, ld.err, NoneV, ld, FALSE, FALSE)
          ELSE IF key \in DOMAIN ld.s.data
               THEN Outcome([ld.s EXCEPT !.data = Remove(ld.s.data, key),
                                         !.needs_sync = TRUE],
                            f, "ok", NoneV, ld, FALSE, FALSE)
               ELSE Outcome([ld.s EXCEPT !.needs_sync = TRUE],
                            f, "KeyError", NoneV, ld, FALSE, FALSE) :
             ld \in {EnsureLoaded(s, f)}})

\* JSONStore.__delitem__
JSONStore_delitem(s, f, key) ==
    Only({IF ld.err # "none" THEN Outcome(ld.s, f, ld.err, NoneV, ld, FALSE, FALSE)
          ELSE IF key \in DOMAIN ld.s.data
               THEN Outcome([ld.s EXCEPT !.data = Remove(ld.s.data, key),
                                         !.needs_sync = TRUE],
                            f, "ok", NoneV, ld, FALSE, FALSE)
               ELSE Outcome(ld.s, f, "KeyError", NoneV, ld, FALSE, FALSE) :
             ld \in {EnsureLoaded(s, f)}})

\* JSONStore.__len__, __iter__, copy and keys: load, then read self._data
JSONStore_read(s, f) ==
    Only({IF ld.err # "none" THEN Outcome(ld.s, f, ld.err, NoneV, ld, FALSE, FALSE)
          ELSE Outcome(ld.s, f, "ok", Dict(ld.s.data), ld, FALSE, FALSE) :
             ld \in {EnsureLoaded(s, f)}})

ReservedNames == {"__weakref__", "__module__", "__dict__", "__doc__"}

\* JSONStore._sanatize
_sanatize(data) ==
    Restrict(data, {k \in DOMAIN data :
                      /\ data[k].t # "callable"
                      /\ data[k].t # "JSONStore"
                      /\ k \notin ReservedNames})

\* the file system's part in a sync: "none", "open" (io.open raises, the file
\* is untouched) or "write" (json_file.write raises, or the process dies,
\* after io.open(path, 'w') has emptied the file)
Faults == {"none", "open", "write"}

\* lines 142-152 of sync with the write's failure reported as success
Mut_write_swallow(s, f, ld, kw, fault) ==
    IF fault = "open"
    THEN Outcome([s EXCEPT !.synced_kw = kw, !.needs_sync = FALSE],
                 f, "True", NoneV, ld, FALSE, TRUE)
    ELSE IF ~DataSerializable(_sanatize(s.data)) \/ fault = "write"
    THEN Outcome([s EXCEPT !.synced_kw = kw, !.needs_sync = FALSE],
                 Truncated, "True", NoneV, ld, FALSE, TRUE)
    ELSE Outcome([s EXCEPT !.synced_kw = kw, !.needs_sync = FALSE],
                 Doc(JsonDocument(_sanatize(s.data))), "True", NoneV, ld, TRUE, FALSE)

\* JSONStore.sync, lines 142-152: sanitize, open the file for writing (which
\* empties it), serialize inside the with block, write, record the sync
WriteStore(s, f, ld, kw, fault) ==
    IF fault = "open" THEN Outcome(s, f, "IOError", NoneV, ld, FALSE, TRUE)
    ELSE IF ~DataSerializable(_sanatize(s.data))
    THEN Outcome(s, Truncated, "TypeError", NoneV, ld, FALSE, TRUE)
    ELSE IF fault = "write" THEN Outcome(s, Truncated, "IOError", NoneV, ld, FALSE, TRUE)
    ELSE Outcome([s EXCEPT !.synced_kw = kw, !.needs_sync = FALSE],
                 Doc(JsonDocument(_sanatize(s.data))), "True", NoneV, ld, TRUE, FALSE)

\* a sync that does not look at the options of the last sync
Mut_sync_ignores_options(s, f, json_kw, force, fault) ==
    Only({IF ld.err # "none" THEN Outcome(ld.s, f, ld.err, NoneV, ld, FALSE, FALSE)
          ELSE IF ~(ld.s.needs_sync \/ force)
               THEN Outcome(ld.s, f, "False", NoneV, ld, FALSE, FALSE)
               ELSE WriteStore(ld.s, f, ld, KwOr(json_kw, ld.s.json_kw), fault) :
             ld \in {EnsureLoaded(s, f)}})

\* a sync that rewrites whenever it is called
Mut_sync_always(s, f, json_kw, force, fault) ==
    Only({WriteStore(ld.s, f, ld, KwOr(json_kw, ld.s.json_kw), fault) :
             ld \in {EnsureLoaded(s, f)}})

\* JSONStore.sync
JSONStore_sync(s, f, json_kw, force, fault) ==
    Only({IF ld.err # "none" THEN Outcome(ld.s, f, ld.err, NoneV, ld, FALSE, FALSE)
          ELSE LET kw == KwOr(json_kw, ld.s.json_kw)
                   s2 == IF ld.s.synced_kw # kw
                         THEN [ld.s EXCEPT !.needs_sync = TRUE]
                         ELSE ld.s
               IN  IF ~(s2.needs_sync \/ force)
                   THEN Outcome(s2, f, "False", NoneV, ld, FALSE, FALSE)
                   ELSE WriteStore(s2, f, ld, kw, fault) :
             ld \in {EnsureLoaded(s, f)}})

\* the call returned instead of raising
Completed(c) == c.res \in {"ok", "True", "False"}

-----------------------------------------------------------------------------
(* Storage *)

\* os.path.join(os.getcwd(), settings.CONFIG_DATA_FOLDER)
ConfigDir == Str("<cwd>/.pyupdater")

\* os.path.join(self.config_dir, settings.CONFIG_FILE_USER)
FileName == Str("<cwd>/.pyupdater/config.pyu")

\* Storage.__dict__ as the class statement leaves it
ClassBody ==
    [n \in {"__init__", "__getattr__", "__setattr__", "__delattr__",
            "__getitem__", "__setitem__", "_load_db", "save", "load",
            "__module__", "__dict__", "__weakref__", "__doc__"} |->
        CASE n = "__module__" -> Str("pyupdater.utils.storage")
          [] n = "__doc__" -> NoneV
          [] n \in {"__dict__", "__weakref__"} -> Object(n)
          [] OTHER -> Callable(n)]

\* Storage.__setattr__: every attribute assignment lands on the class
Storage_setattr(c, name, value) == Put(c, name, value)

\* what a Storage call gives back: the class dict, the store and the file,
\* the outcome and the value, and what it did to the file
Result(c, s, f, res, val, read, failed, wrote, wfail) ==
    [c |-> c, s |-> s, f |-> f, res |-> res, val |-> val,
     read |-> read, failed |-> failed, wrote |-> wrote, wfail |-> wfail]

\* Storage._load_db: for k, v in self.db: setattr(Storage, k, v)
_load_db(c, s, f) ==
    Only({IF it.res # "ok"
          THEN Result(c, it.s, f, it.res, NoneV, it.read, it.failed, FALSE, FALSE)
          ELSE Result(Update(c, it.s.data), it.s, f, "ok", NoneV,
                      it.read, it.failed, FALSE, FALSE) :
             it \in {JSONStore_read(s, f)}})

\* `if self._loaded_db is False: self._load_db()`
LoadDbIfNeeded(c, s, f) ==
    IF Get(c, "_loaded_db") = Bool(FALSE)
    THEN _load_db(c, s, f)
    ELSE Result(c, s, f, "ok", NoneV, FALSE, FALSE, FALSE, FALSE)

\* Storage.__init__
Storage_init(c, f, refresh) ==
    LET c1 == Storage_setattr(c, "config_dir", ConfigDir)
        c2 == Storage_setattr(c1, "filename", FileName)
        c3 == Storage_setattr(c2, "db", StoreRef)
        c4 == Storage_setattr(c3, "_loaded_db", Bool(FALSE))
    IN  IF refresh
        THEN _load_db(Storage_setattr(c4, "_loaded_db", Bool(TRUE)), JSONStore_init("none"), f)
        ELSE Result(c4, JSONStore_init("none"), f, "ok", NoneV, FALSE, FALSE, FALSE, FALSE)

\* a __delattr__ that deletes
Mut_delattr_deletes(c, s, f, name) ==
    Result(Remove(c, name), s, f, "ok", NoneV, FALSE, FALSE, FALSE, FALSE)

\* Storage.__delattr__: raise AttributeError('Cannot delete attributes!')
Storage_delattr(c, s, f, name) ==
    Result(c, s, f, "AttributeError", NoneV, FALSE, FALSE, FALSE, FALSE)

\* a save that syncs the store as it is
Mut_sync_without_copy(c, ld, f, fault) ==
    Only({IF el.err # "none"
          THEN Result(c, el.s, f, el.err, NoneV,
                      ld.read \/ el.read, ld.failed \/ el.failed, FALSE, FALSE)
          ELSE Only({Result(c, sy.s, sy.f, IF Completed(sy) THEN "ok" ELSE sy.res, NoneV,
                            ld.read \/ el.read, ld.failed \/ el.failed, sy.wrote, sy.wfail) :
                        sy \in {JSONStore_sync([el.s EXCEPT !.needs_sync = TRUE],
                                               f, "none", FALSE, fault)}}) :
             el \in {EnsureLoaded(ld.s, f)}})

\* Storage.save, lines 218-221: every class attribute is copied into the
\* store (the first self.db[k] = v loads the store), then self.db.sync()
CopyAndSync(c, ld, f, fault) ==
    Only({IF el.err # "none"
          THEN Result(c, el.s, f, el.err, NoneV,
                      ld.read \/ el.read, ld.failed \/ el.failed, FALSE, FALSE)
          ELSE Only({Result(c, sy.s, sy.f, IF Completed(sy) THEN "ok" ELSE sy.res, NoneV,
                            ld.read \/ el.read, ld.failed \/ el.failed, sy.wrote, sy.wfail) :
                        sy \in {JSONStore_sync([el.s EXCEPT !.data = Update(el.s.data, c),
                                                            !.needs_sync = TRUE],
                                               f, "none", FALSE, fault)}}) :
             el \in {EnsureLoaded(ld.s, f)}})

\* Storage.save: load the class from the store if that is still to do, set
\* the key on the class, copy the class into the store and sync
Storage_save(c, s, f, key, value, fault) ==
    Only({IF ld.res # "ok" THEN ld
          ELSE IF Get(Storage_setattr(ld.c, key, value), "db") # StoreRef
               THEN Result(Storage_setattr(ld.c, key, value), ld.s, f, "TypeError", NoneV,
                           ld.read, ld.failed, FALSE, FALSE)
               ELSE CopyAndSync(Storage_setattr(ld.c, key, value), ld, f, fault) :
             ld \in {LoadDbIfNeeded(c, s, f)}})

\* a load that answers from the file's document
Mut_load_from_file(c, s, f, key) ==
    Only({Result(ld.c, ld.s, f, "ok", Get(f.doc, key), ld.read, ld.failed, FALSE, FALSE) :
             ld \in {LoadDbIfNeeded(c, s, f)}})

\* Storage.load
Storage_load(c, s, f, key) ==
    Only({IF ld.res # "ok" THEN ld
          ELSE Result(ld.c, ld.s, f, "ok", Get(ld.c, key), ld.read, ld.failed, FALSE, FALSE) :
             ld \in {LoadDbIfNeeded(c, s, f)}})

-----------------------------------------------------------------------------
(* Config *)

\* os.getcwd()
Cwd == Str("<cwd>")

\* the names used as Config keys for which str.isupper() is true: every cased
\* character is upper-case and there is at least one
UpperNames == {"APP_NAME", "CLIENT_CONFIG_PATH", "COMPANY_NAME", "PLUGIN_CONFIGS",
               "UPDATE_PATCHES", "MAX_DOWNLOAD_RETRIES", "UPDATE_URLS", "PUBLIC_KEY",
               "DATA_DIR"}

\* key.isupper()
IsUpper(k) == k \in UpperNames

\* config_template of Config.__postinit__
ConfigTemplate ==
    [k \in {"APP_NAME", "CLIENT_CONFIG_PATH", "COMPANY_NAME", "PLUGIN_CONFIGS",
            "UPDATE_PATCHES", "MAX_DOWNLOAD_RETRIES"} |->
        CASE k = "APP_NAME" -> Str("settings.GENERIC_APP_NAME")
          [] k = "CLIENT_CONFIG_PATH" -> List("settings.DEFAULT_CLIENT_CONFIG")
          [] k = "COMPANY_NAME" -> Str("settings.GENERIC_APP_NAME")
          [] k = "PLUGIN_CONFIGS" -> Dict(EmptyMap)
          [] k = "UPDATE_PATCHES" -> Bool(TRUE)
          [] k = "MAX_DOWNLOAD_RETRIES" -> Num("3")]

\* a __postinit__ that loads no defaults
Mut_postinit_nothing(fields) == fields

\* Config.__postinit__: self.update(config_template)
Config_postinit(fields) == Update(fields, ConfigTemplate)

\* what a Config call gives back: the Config's dict, the Storage class, the
\* store, the settings file, the artifact and the outcome
CResult(fields, r, art, res) ==
    [fields |-> fields, c |-> r.c, s |-> r.s, f |-> r.f, art |-> art, res |-> res,
     val |-> NoneV, read |-> r.read, failed |-> r.failed, wrote |-> r.wrote,
     wfail |-> r.wfail]

\* a call that has not touched the registry
Untouched(c, s, f) == Result(c, s, f, "ok", NoneV, FALSE, FALSE, FALSE, FALSE)

\* a load that keeps the DATA_DIR it read
Mut_load_config_no_data_dir(fields, c, s, f, art) ==
    IF Get(fields, "db") = NoneV
    THEN CResult(fields, Untouched(c, s, f), art, "ConfigError")
    ELSE Only({IF r.res # "ok" THEN CResult(fields, r, art, r.res)
               ELSE CResult(Update(fields, IF r.val = NoneV THEN EmptyMap ELSE r.val.m),
                            r, art, "ok") :
                  r \in {Storage_load(c, s, f, "app_config")}})

\* a from_object that copies every attribute dir(obj) lists
Mut_from_object_all(fields, obj) ==
    IF Get(fields, "client") = Bool(FALSE)
    THEN [fields |-> fields, res |-> "ConfigError"]
    ELSE [fields |-> Update(fields, obj), res |-> "ok"]

\* Config.from_object: obj is the mapping from the names dir(obj) lists to
\* what getattr(obj, name) returns
Config_from_object(fields, obj) ==
    IF Get(fields, "client") = Bool(FALSE)
    THEN [fields |-> fields, res |-> "ConfigError"]
    ELSE [fields |-> Update(fields, Restrict(obj, {k \in DOMAIN obj : IsUpper(k)})),
          res |-> "ok"]

\* Config._load_config
_load_config(fields, c, s, f, art) ==
    IF Get(fields, "db") = NoneV
    THEN CResult(fields, Untouched(c, s, f), art, "ConfigError")
    ELSE Only({IF r.res # "ok" THEN CResult(fields, r, art, r.res)
               ELSE IF r.val # NoneV /\ r.val.t # "dict"
                    \* config_data.items() on something that is no dict
                    THEN CResult(fields, r, art, "AttributeError")
               ELSE CResult(Put(Update(fields, IF r.val = NoneV THEN EmptyMap ELSE r.val.m),
                                "DATA_DIR", Cwd),
                            r, art, "ok") :
                  r \in {Storage_load(c, s, f, "app_config")}})

\* Config.__init__(**kwargs)
Config_init(kwargs, c, s, f, art) ==
    LET f0 == Config_postinit(kwargs)
        f2 == Put(Put(f0, "load_config",
                      IF "load_config" \in DOMAIN kwargs THEN kwargs["load_config"] ELSE Bool(FALSE)),
                  "client",
                  IF "client" \in DOMAIN kwargs THEN kwargs["client"] ELSE Bool(FALSE))
    IN  IF f2["client"] = Bool(FALSE)
        THEN Only({IF r.res # "ok" THEN CResult(Put(f2, "db", StorageRef), r, art, r.res)
                   ELSE IF f2["load_config"] = Bool(TRUE)
                        THEN Only({[w EXCEPT !.read = r.read \/ w.read,
                                             !.failed = r.failed \/ w.failed] :
                                      w \in {_load_config(Put(f2, "db", StorageRef),
                                                          r.c, r.s, r.f, art)}})
                        ELSE CResult(Put(f2, "db", StorageRef), r, art, "ok") :
                      r \in {Storage_init(c, f, TRUE)}})
        ELSE CResult(Put(f2, "db", NoneV), Untouched(c, s, f), art, "ok")

Line(name, fmt, value) == [name |-> name, fmt |-> fmt, value |-> value]

\* a with block that writes all five lines
Mut_lines_all(fields, public_key) ==
    <<Line("APP_NAME", "str", Get(fields, "APP_NAME")),
      Line("COMPANY_NAME", "str", Get(fields, "COMPANY_NAME")),
      Line("UPDATE_URLS", "raw", Get(fields, "UPDATE_URLS")),
      Line("PUBLIC_KEY", "str", public_key),
      Line("MAX_DOWNLOAD_RETRIES", "raw", Get(fields, "MAX_DOWNLOAD_RETRIES"))>>

\* the text written by the with block of _write_config_py: one line per
\* field the Config has, in this order
ArtifactLines(fields, public_key) ==
    (IF "APP_NAME" \in DOMAIN fields
     THEN <<Line("APP_NAME", "str", fields["APP_NAME"])>> ELSE <<>>)
    \o (IF "COMPANY_NAME" \in DOMAIN fields
        THEN <<Line("COMPANY_NAME", "str", fields["COMPANY_NAME"])>> ELSE <<>>)
    \o (IF "UPDATE_URLS" \in DOMAIN fields
        THEN <<Line("UPDATE_URLS", "raw", fields["UPDATE_URLS"])>> ELSE <<>>)
    \o (IF "PUBLIC_KEY" \in DOMAIN fields
        THEN <<Line("PUBLIC_KEY", "str", public_key)>> ELSE <<>>)
    \o (IF "MAX_DOWNLOAD_RETRIES" \in DOMAIN fields
        THEN <<Line("MAX_DOWNLOAD_RETRIES", "raw", fields["MAX_DOWNLOAD_RETRIES"])>> ELSE <<>>)

\* keypack_data['client']['offline_public'] can be read
HasPublicKey(kp) ==
    /\ kp.t = "dict"
    /\ "client" \in DOMAIN kp.m
    /\ kp.m["client"].t = "dict"
    /\ "offline_public" \in DOMAIN kp.m["client"].m

\* Config._write_config_py
_write_config_py(fields, c, s, f, art) ==
    Only({IF kp.res # "ok" THEN CResult(fields, kp, art, kp.res)
          ELSE IF kp.val # NoneV /\ ~HasPublicKey(kp.val)
               THEN CResult(fields, kp, art, "KeyError")
          ELSE IF "CLIENT_CONFIG_PATH" \notin DOMAIN fields
               THEN CResult(fields, kp, art, "AttributeError")
          ELSE CResult(fields, kp,
                       [exists |-> TRUE,
                        lines |-> ArtifactLines(fields,
                                     IF kp.val = NoneV THEN NoneV
                                     ELSE kp.val.m["client"].m["offline_public"])],
                       "ok") :
             kp \in {IF Get(fields, "db") = NoneV THEN Untouched(c, s, f)
                     ELSE Storage_load(c, s, f, "keypack")}})

\* a record made of every field
Mut_all_fields(fields) == fields

\* save_config, lines 132-135: out holds the fields whose name is upper-case
SettingsRecord(fields) == Restrict(fields, {k \in DOMAIN fields : IsUpper(k)})

\* a save that goes on without a Storage
Mut_save_config_no_guard(fields, c, s, f, art, fault) ==
    IF Get(fields, "db") = NoneV
    THEN CResult(fields, Untouched(c, s, f), art, "AttributeError")
    ELSE Only({IF r.res # "ok" THEN CResult(fields, r, art, r.res)
               ELSE Only({[w EXCEPT !.read = r.read \/ w.read,
                                    !.failed = r.failed \/ w.failed,
                                    !.wrote = r.wrote, !.wfail = r.wfail] :
                             w \in {_write_config_py(fields, r.c, r.s, r.f, art)}}) :
                  r \in {Storage_save(c, s, f, "app_config",
                                      Dict(SettingsRecord(fields)), fault)}})

\* Config.save_config
Config_save_config(fields, c, s, f, art, fault) ==
    IF Get(fields, "db") = NoneV
    THEN CResult(fields, Untouched(c, s, f), art, "ConfigError")
    ELSE Only({IF r.res # "ok" THEN CResult(fields, r, art, r.res)
               ELSE Only({[w EXCEPT !.read = r.read \/ w.read,
                                    !.failed = r.failed \/ w.failed,
                                    !.wrote = r.wrote, !.wfail = r.wfail] :
                             w \in {_write_config_py(fields, r.c, r.s, r.f, art)}}) :
                  r \in {Storage_save(c, s, f, "app_config",
                                      Dict(SettingsRecord(fields)), fault)}})

-----------------------------------------------------------------------------
(* History *)

\* the record kept of a call
Call(op, key, kw, force, res, ret, read, wrote, wfail) ==
    [op |-> op, self |-> "", key |-> key, kw |-> kw, force |-> force, res |-> res,
     ret |-> ret, read |-> read, wrote |-> wrote, wfail |-> wfail]

NoCall == Call("none", "", "none", FALSE, "ok", NoneV, FALSE, FALSE, FALSE)

Writes(c) == IF c.wrote THEN 1 ELSE 0

NoArtifact == [exists |-> FALSE, lines |-> <<>>]

NoConfig == [exists |-> FALSE, fields |-> EmptyMap]

NoRoundTrip == [valid |-> FALSE, phase |-> "fresh", out |-> EmptyMap]

-----------------------------------------------------------------------------
(* A JSONStore used on its own *)

StoreKeys == {"k1", "k2"}

StoreValues == {Str("v1"), Str("v2"), Callable("f"), Object("o")}

\* keyword dicts passed to sync: None or a non-empty dict
SyncKw == {"none", "kwA"}

StoreFrame == UNCHANGED <<artifact, insts, cls, cfg, saved, setKeys, roundTrip>>

\* the effect of one accessor call with outcome o
StoreCall(o, op, key, kw, force) ==
    /\ store' = o.s
    /\ disk' = o.f
    /\ last' = Call(op, key, kw, force, o.res, o.val, o.read, o.wrote, o.wfail)
    /\ reads' = IF o.read THEN Bump(reads) ELSE reads
    /\ accessed' = Bump(accessed)
    /\ loadStatus' = IF o.read THEN (IF o.failed THEN "failed" ELSE "ok") ELSE loadStatus
    /\ mutated' = IF op \in {"set", "delete"} /\ o.res = "ok" THEN TRUE
                  ELSE IF o.wrote THEN FALSE
                  ELSE mutated
    /\ pairWrites' =
          IF /\ op = "sync" /\ ~force /\ o.res \in {"True", "False"}
             /\ last.op = "sync" /\ ~last.force /\ last.res \in {"True", "False"}
             /\ last.kw = kw
          THEN Writes(last) + (IF o.wrote THEN 1 ELSE 0)
          ELSE -1
    /\ StoreFrame

\* store = JSONStore(path): no file access
New ==
    /\ \E kw \in SyncKw : store' = JSONStore_init(kw)
    /\ last' = Call("init", "", "none", FALSE, "ok", NoneV, FALSE, FALSE, FALSE)
    /\ reads' = 0
    /\ accessed' = 0
    /\ loadStatus' = "none"
    /\ mutated' = FALSE
    /\ pairWrites' = -1
    /\ UNCHANGED disk
    /\ StoreFrame

GetItem ==
    /\ store.exists
    /\ \E k \in StoreKeys : \E o \in {JSONStore_getitem(store, disk, k)} :
          StoreCall(o, "get", k, "none", FALSE)

SetItem ==
    /\ store.exists
    /\ \E k \in StoreKeys, v \in StoreValues : \E o \in {JSONStore_setitem(store, disk, k, v)} :
          StoreCall(o, "set", k, "none", FALSE)

DelItem ==
    /\ store.exists
    /\ \E k \in StoreKeys : \E o \in {JSONStore_delitem(store, disk, k)} :
          StoreCall(o, "delete", k, "none", FALSE)

StoreLen ==
    /\ store.exists
    /\ \E o \in {JSONStore_read(store, disk)} : StoreCall(o, "len", "", "none", FALSE)

StoreIter ==
    /\ store.exists
    /\ \E o \in {JSONStore_read(store, disk)} : StoreCall(o, "iter", "", "none", FALSE)

StoreCopy ==
    /\ store.exists
    /\ \E o \in {JSONStore_read(store, disk)} : StoreCall(o, "copy", "", "none", FALSE)

StoreKeysCall ==
    /\ store.exists
    /\ \E o \in {JSONStore_read(store, disk)} : StoreCall(o, "keys", "", "none", FALSE)

Sync ==
    /\ store.exists
    /\ \E kw \in SyncKw, force \in BOOLEAN, fault \in Faults :
          \E o \in {JSONStore_sync(store, disk, kw, force, fault)} :
             StoreCall(o, "sync", "", kw, force)

InitStore ==
    /\ disk \in {Missing, Malformed}
    /\ artifact = NoArtifact
    /\ store = NoStore
    /\ insts = {}
    /\ cls = ClassBody
    /\ cfg = NoConfig
    /\ last = NoCall
    /\ pairWrites = -1
    /\ reads = 0
    /\ accessed = 0
    /\ loadStatus = "none"
    /\ mutated = FALSE
    /\ saved = EmptyMap
    /\ setKeys = {}
    /\ roundTrip = NoRoundTrip

NextStore == New \/ GetItem \/ SetItem \/ DelItem \/ StoreLen \/ StoreIter \/ StoreCopy \/ StoreKeysCall \/ Sync

SpecStore == InitStore /\ [][NextStore]_vars

-----------------------------------------------------------------------------
(* Storage instances sharing the class *)

Instances == {"A", "B"}

RegKeys == {"x", "y"}

RegValues == {Str("v1"), Tuple("v2"), Callable("f")}

\* the names load and del are called with: the keys, an attribute that
\* __init__ sets and a method of the class
LoadKeys == RegKeys \cup {"filename", "save"}

\* the key and the values saved where load and del take any name
NameKeys == {"x"}

NameValues == {Str("v1"), Callable("f")}

RegFrame == UNCHANGED <<artifact, cfg, pairWrites, reads, accessed, loadStatus, mutated, roundTrip>>

\* the effect of one Storage call with result r on the registry and the
\* history of the live store
RegCall(r, op, self, key) ==
    /\ cls' = r.c
    /\ store' = r.s
    /\ disk' = r.f
    /\ last' = [Call(op, key, "none", FALSE, r.res, r.val, r.read, r.wrote, r.wfail)
                  EXCEPT !.self = self]

\* self = Storage(refresh): a new JSONStore replaces Storage.db
StorageNew ==
    \E self \in Instances, refresh \in BOOLEAN :
       \E r \in {Storage_init(cls, disk, refresh)} :
       /\ RegCall(r, IF refresh THEN "Storage(True)" ELSE "Storage(False)", self, "")
       /\ insts' = insts \cup {self}
       /\ saved' = [k \in DOMAIN saved |-> [saved[k] EXCEPT !.held = FALSE]]
       /\ UNCHANGED setKeys
       /\ RegFrame

\* self.save(key, value) with the key, the value and the file system's part
\* taken from Ks, Vs and Fs
SaveWith(Ks, Vs, Fs) ==
    \E self \in insts, k \in Ks, v \in Vs, fault \in Fs :
       \E r \in {Storage_save(cls, store, disk, k, v, fault)} :
       /\ RegCall(r, "save", self, k)
       /\ saved' = IF r.res = "ok"
                   THEN Put(saved, k, [value |-> v, by |-> self, held |-> TRUE])
                   ELSE Remove(saved, k)
       /\ setKeys' = setKeys \cup {k}
       /\ UNCHANGED insts
       /\ RegFrame

\* self.save(key, value)
Save == SaveWith(RegKeys, RegValues, Faults)

\* self.load(key) with the key taken from Ks
LoadWith(Ks) ==
    \E self \in insts, k \in Ks :
       \E r \in {Storage_load(cls, store, disk, k)} :
       /\ RegCall(r, "load", self, k)
       /\ UNCHANGED <<insts, saved, setKeys>>
       /\ RegFrame

\* self.load(key)
Load == LoadWith(RegKeys)

\* del self.k
DelAttr ==
    \E self \in insts, k \in LoadKeys :
       \E r \in {Storage_delattr(cls, store, disk, k)} :
       /\ RegCall(r, "delattr", self, k)
       /\ UNCHANGED <<insts, saved, setKeys>>
       /\ RegFrame

\* the process ends and a new one starts: the class and every object are
\* gone, the files stay
Restart ==
    /\ cls' = ClassBody
    /\ store' = NoStore
    /\ insts' = {}
    /\ cfg' = NoConfig
    /\ last' = Call("restart", "", "none", FALSE, "ok", NoneV, FALSE, FALSE, FALSE)
    /\ saved' = EmptyMap
    /\ setKeys' = {}
    /\ roundTrip' = [roundTrip EXCEPT !.phase = "fresh"]
    /\ UNCHANGED <<disk, artifact, pairWrites, reads, accessed, loadStatus, mutated>>

NextReg == StorageNew \/ Save \/ Load \/ Restart

SpecReg == InitStore /\ [][NextReg]_vars

-----------------------------------------------------------------------------
(* Storage: load and del with any name *)

SaveName == SaveWith(NameKeys, NameValues, Faults)

LoadName == LoadWith(LoadKeys)

NextNames == StorageNew \/ SaveName \/ LoadName \/ DelAttr \/ Restart

SpecNames == InitStore /\ [][NextNames]_vars

-----------------------------------------------------------------------------
(* A Config and the Storage behind it *)

\* the fields a caller sets: an upper-case setting that is no default, as a
\* list and as a tuple, the directory the load recomputes, a private field
FieldValues ==
    {<<"UPDATE_URLS", List("https://acme.example")>>,
     <<"UPDATE_URLS", Tuple("https://acme.example")>>,
     <<"DATA_DIR", Str("<elsewhere>")>>,
     <<"_internal", Str("tmp")>>}

\* Config(**kwargs) as the callers write it: a flag is passed when it is True
Kwargs(client, load_config) ==
    [k \in (IF client THEN {"client"} ELSE {}) \cup
           (IF load_config THEN {"load_config"} ELSE {}) |-> Bool(TRUE)]

KwargsName(client, load_config) ==
    IF client THEN (IF load_config THEN "client,load_config" ELSE "client")
    ELSE (IF load_config THEN "load_config" ELSE "")

\* the fields of a Config that are settings: all but the three set by __init__
Settings(fields) == Restrict(fields, DOMAIN fields \ {"load_config", "client", "db"})

CfgFrame == UNCHANGED <<insts, pairWrites, reads, accessed, loadStatus, mutated, saved, setKeys>>

\* the effect of one Config call with result r
CfgCall(r, op, key) ==
    /\ cls' = r.c
    /\ store' = r.s
    /\ disk' = r.f
    /\ artifact' = r.art
    /\ last' = Call(op, key, "none", FALSE, r.res, r.val, r.read, r.wrote, r.wfail)

\* the saved record stays valid while the file stays as it is
KeepRoundTrip(phase) ==
    roundTrip' = [roundTrip EXCEPT !.valid = roundTrip.valid /\ disk' = disk,
                                   !.phase = phase]

\* cfg = Config(...): when the constructor raises, no object is bound
ConfigNew ==
    \E client \in BOOLEAN, load_config \in BOOLEAN :
       \E r \in {Config_init(Kwargs(client, load_config), cls, store, disk, artifact)} :
       /\ CfgCall(r, "Config", KwargsName(client, load_config))
       /\ cfg' = IF r.res = "ok" THEN [exists |-> TRUE, fields |-> r.fields] ELSE cfg
       /\ KeepRoundTrip(IF roundTrip.phase # "fresh" \/ r.res # "ok" THEN "stale"
                        ELSE IF client THEN "fresh"
                        ELSE IF load_config THEN "loaded" ELSE "new")
       /\ CfgFrame

\* cfg[k] = v, cfg.k = v with the field and the value taken from FVs
SetFieldWith(FVs) ==
    /\ cfg.exists
    /\ \E kv \in FVs :
          /\ cfg' = [cfg EXCEPT !.fields = Put(cfg.fields, kv[1], kv[2])]
          /\ last' = Call("set", kv[1], "none", FALSE, "ok", NoneV, FALSE, FALSE, FALSE)
    /\ roundTrip' = [roundTrip EXCEPT !.phase = "stale"]
    /\ UNCHANGED <<disk, artifact, store, cls>>
    /\ CfgFrame

\* cfg[k] = v, cfg.k = v
SetField == SetFieldWith(FieldValues)

\* cfg._load_config()
LoadConfig ==
    /\ cfg.exists
    /\ \E r \in {_load_config(cfg.fields, cls, store, disk, artifact)} :
          /\ CfgCall(r, "load_config", "")
          /\ cfg' = [cfg EXCEPT !.fields = r.fields]
          /\ KeepRoundTrip(IF r.res = "ConfigError" THEN roundTrip.phase
                           ELSE IF roundTrip.phase = "new" /\ r.res = "ok" THEN "loaded"
                           ELSE "stale")
    /\ CfgFrame

\* cfg.save_config() with the file system's part taken from Fs
SaveConfigWith(Fs) ==
    /\ cfg.exists
    /\ \E fault \in Fs :
       \E r \in {Config_save_config(cfg.fields, cls, store, disk, artifact, fault)} :
          /\ CfgCall(r, "save_config", "")
          /\ cfg' = [cfg EXCEPT !.fields = r.fields]
          /\ roundTrip' =
                IF r.res = "ConfigError" THEN roundTrip
                ELSE IF r.wrote
                THEN [valid |-> TRUE, phase |-> "stale", out |-> SettingsRecord(cfg.fields)]
                ELSE [roundTrip EXCEPT !.valid = roundTrip.valid /\ disk' = disk,
                                       !.phase = "stale"]
    /\ CfgFrame

\* cfg.save_config()
SaveConfig == SaveConfigWith(Faults)

NextCfg == ConfigNew \/ SetField \/ LoadConfig \/ SaveConfig \/ Restart

\* a new repository: no settings file yet
InitCfg == InitStore /\ disk = Missing

SpecCfg == InitCfg /\ [][NextCfg]_vars

-----------------------------------------------------------------------------
(* A Config, the objects merged into it, the key material and client_config.py *)

\* the fields set and deleted where client_config.py is looked at
ArtifactFieldValues == {<<"PUBLIC_KEY", Str("<set by hand>")>>}

DelFields == {"APP_NAME"}

\* the values saved under settings.CONFIG_DB_KEY_KEYPACK: the key material
\* as the key handler saves it, a record without 'client', a record whose
\* 'client' has no 'offline_public'
KeypackValues ==
    {Dict([client |-> Dict([offline_public |-> Str("pk")])]),
     Dict(EmptyMap),
     Dict([client |-> Dict(EmptyMap)])}

\* the objects passed to from_object, by name
ExtObjects == {"extA", "extB"}

\* dir(obj) and getattr(obj, name) of these objects
ExtAttrs(name) ==
    IF name = "extA"
    THEN [k \in {"APP_NAME", "UPDATE_URLS", "debug", "__doc__"} |->
             CASE k = "APP_NAME" -> Str("Acme")
               [] k = "UPDATE_URLS" -> List("https://acme.example/a")
               [] k = "debug" -> Bool(TRUE)
               [] OTHER -> NoneV]
    ELSE [k \in {"PUBLIC_KEY", "_internal", "__doc__"} |->
             CASE k = "PUBLIC_KEY" -> Str("pk-ext")
               [] k = "_internal" -> Str("ext")
               [] OTHER -> NoneV]

SetArtifactField == SetFieldWith(ArtifactFieldValues)

\* del cfg[k]
DelField ==
    /\ cfg.exists
    /\ \E k \in DelFields :
          /\ cfg' = [cfg EXCEPT !.fields = Remove(cfg.fields, k)]
          /\ last' = Call("del", k, "none", FALSE,
                          IF k \in DOMAIN cfg.fields THEN "ok" ELSE "KeyError",
                          NoneV, FALSE, FALSE, FALSE)
    /\ roundTrip' = [roundTrip EXCEPT !.phase = "stale"]
    /\ UNCHANGED <<disk, artifact, store, cls>>
    /\ CfgFrame

\* cfg.from_object(obj)
FromObject ==
    /\ cfg.exists
    /\ \E name \in ExtObjects : \E r \in {Config_from_object(cfg.fields, ExtAttrs(name))} :
          /\ cfg' = [cfg EXCEPT !.fields = r.fields]
          /\ last' = Call("from_object", name, "none", FALSE, r.res, NoneV, FALSE, FALSE, FALSE)
    /\ roundTrip' = [roundTrip EXCEPT !.phase = "stale"]
    /\ UNCHANGED <<disk, artifact, store, cls>>
    /\ CfgFrame

\* cfg.db.save(settings.CONFIG_DB_KEY_KEYPACK, keypack): what the key handler
\* does with the Storage
KeypackSave ==
    /\ cfg.exists
    /\ cfg.fields["db"] = StorageRef
    /\ \E v \in KeypackValues :
       \E r \in {Storage_save(cls, store, disk, "keypack", v, "none")} :
          /\ RegCall(r, "save", "", "keypack")
          /\ KeepRoundTrip("stale")
    /\ UNCHANGED <<cfg, artifact>>
    /\ CfgFrame

\* cfg.save_config() on a file system that does not fail
SaveConfigNoFault == SaveConfigWith({"none"})

NextArt == ConfigNew \/ SetArtifactField \/ DelField \/ KeypackSave \/ SaveConfigNoFault

SpecArt == InitCfg /\ [][NextArt]_vars

NextMerge == ConfigNew \/ SetField \/ DelField \/ FromObject

SpecMerge == InitCfg /\ [][NextMerge]_vars

-----------------------------------------------------------------------------
(* Config: claims *)

\* a fresh process has constructed a Config and loaded, from the file as the
\* last successful save_config left it
RoundTripDone == roundTrip.valid /\ roundTrip.phase = "loaded"

\* C2 as stated: a record with upper-case keys that save_config wrote comes
\* back, in a new process, with the same keys and values, except DATA_DIR,
\* which is the working directory of the load.
C2_RoundTripSame ==
    RoundTripDone =>
        /\ last.res = "ok"
        /\ Remove(Settings(cfg.fields), "DATA_DIR") = Remove(roundTrip.out, "DATA_DIR")
        /\ Get(cfg.fields, "DATA_DIR") = Cwd

\* C2 amended: the record comes back with the same keys, each with the value
\* its JSON text decodes to: the saved value itself when that is a string, a
\* number, a boolean, None, a list or a dict of such, a list when a tuple was
\* saved; DATA_DIR is the working directory of the load.
C2_RoundTripJson ==
    RoundTripDone =>
        /\ last.res = "ok"
        /\ Remove(Settings(cfg.fields), "DATA_DIR") =
              JsonDocument(Remove(roundTrip.out, "DATA_DIR"))
        /\ \A k \in DOMAIN roundTrip.out \ {"DATA_DIR"} :
              roundTrip.out[k].t # "tuple" => cfg.fields[k] = roundTrip.out[k]
        /\ Get(cfg.fields, "DATA_DIR") = Cwd

C2_Witness ==
    /\ RoundTripDone
    /\ last.op = "Config"
    /\ Get(roundTrip.out, "DATA_DIR") = Str("<elsewhere>")
    /\ "UPDATE_URLS" \in DOMAIN roundTrip.out
    /\ roundTrip.out["UPDATE_URLS"].t = "list"
    /\ cfg.fields["UPDATE_URLS"] = roundTrip.out["UPDATE_URLS"]

\* names of Config fields with a lower-case character
LowerNames == {"_internal", "client", "load_config", "db"}

\* C3: after save_config, whatever fields were set before, the settings
\* record in the registry has upper-case keys only, none of _internal,
\* client, load_config and db, and the record in the file has the same keys.
C3_FilterInvariant ==
    (last.op = "save_config" /\ last.res # "ConfigError") =>
        /\ "app_config" \in DOMAIN cls
        /\ cls["app_config"].t = "dict"
        /\ DOMAIN cls["app_config"].m \subseteq UpperNames
        /\ DOMAIN cls["app_config"].m \cap LowerNames = {}
        /\ last.wrote =>
              /\ disk.kind = "doc"
              /\ "app_config" \in DOMAIN disk.doc
              /\ DOMAIN disk.doc["app_config"].m = DOMAIN cls["app_config"].m

C3_Witness ==
    /\ last.op = "save_config" /\ last.wrote
    /\ "_internal" \in DOMAIN cfg.fields
    /\ "UPDATE_URLS" \in DOMAIN disk.doc["app_config"].m
    /\ "_internal" \notin DOMAIN disk.doc["app_config"].m

\* C6: a Config made with client=True gets no Storage and touches none when
\* it is made; _load_config and save_config on it raise ConfigError and leave
\* the Config, the registry, the settings file and client_config.py alone.
C6_ClientModeForbidsStorage ==
    [][/\ (last'.op = "Config" /\ last'.key \in {"client", "client,load_config"}) =>
            /\ cfg'.fields["db"] = NoneV
            /\ cls' = cls /\ store' = store /\ disk' = disk /\ artifact' = artifact
       /\ (/\ Get(cfg.fields, "client") = Bool(TRUE)
           /\ last'.op \in {"load_config", "save_config"}) =>
            /\ cfg.fields["db"] = NoneV
            /\ last'.res = "ConfigError"
            /\ cfg' = cfg
            /\ cls' = cls /\ store' = store /\ disk' = disk /\ artifact' = artifact]_vars

C6_Witness ==
    /\ last.op = "save_config" /\ last.res = "ConfigError"
    /\ Get(cfg.fields, "client") = Bool(TRUE)
    /\ "_internal" \in DOMAIN cfg.fields
    /\ disk.kind = "doc"
    /\ artifact.exists

\* the step is a load into a Config that holds nothing but what its
\* constructor put there: Config(load_config=True), or _load_config on a
\* Config with a Storage and the default settings
LoadIntoNewConfig ==
    \/ last'.op = "Config" /\ last'.key = "load_config"
    \/ /\ last'.op = "load_config"
       /\ Get(cfg.fields, "db") = StorageRef
       /\ Settings(cfg.fields) \in {ConfigTemplate, Put(ConfigTemplate, "DATA_DIR", Cwd)}

\* the fields of a Config before its load
FieldsBeforeLoad ==
    IF last'.op = "Config"
    THEN Put(Put(Put(ConfigTemplate, "load_config", Bool(TRUE)), "client", Bool(FALSE)),
             "db", StorageRef)
    ELSE cfg.fields

\* the settings record the registry holds
RegistryRecord == IF "app_config" \in DOMAIN cls THEN cls["app_config"].m ELSE EmptyMap

\* C7 as stated: a load while the settings file does not exist succeeds and
\* leaves the default template plus DATA_DIR, whatever the process did to
\* the registry before.
C7_NoFileYieldsDefaults ==
    [][(LoadIntoNewConfig /\ disk = Missing) =>
          /\ last'.res = "ok"
          /\ Settings(cfg'.fields) = Put(ConfigTemplate, "DATA_DIR", Cwd)]_vars

\* C7 amended: a load while the settings file does not exist succeeds; it
\* leaves the default template plus DATA_DIR when the registry of the process
\* holds no settings record, and otherwise the template overlaid with that
\* record, plus DATA_DIR.
C7_NoFileNoRecordYieldsDefaults ==
    [][(LoadIntoNewConfig /\ disk = Missing) =>
          /\ last'.res = "ok"
          /\ disk' = Missing
          /\ cfg'.fields = Put(Update(FieldsBeforeLoad, RegistryRecord), "DATA_DIR", Cwd)
          /\ "app_config" \notin DOMAIN cls =>
                Settings(cfg'.fields) = Put(ConfigTemplate, "DATA_DIR", Cwd)]_vars

C7_Witness ==
    /\ last.op = "Config" /\ last.key = "load_config" /\ last.res = "ok"
    /\ disk = Missing
    /\ "app_config" \notin DOMAIN cls
    /\ Get(cls, "db") = StoreRef
    /\ Settings(cfg.fields) = Put(ConfigTemplate, "DATA_DIR", Cwd)

-----------------------------------------------------------------------------
(* Storage: claims *)

-----------------------------------------------------------------------------
(* JSONStore: claims *)

\* the step is the second of two consecutive completed sync(force=False)
\* calls with equal options
SecondSyncOfPair == last'.op = "sync" /\ pairWrites' # -1

\* C4 as stated: two sync(force=False) calls in a row with the same options
\* and no mutation in between perform exactly one disk write; the second
\* returns False and changes neither the file nor the store.
C4_ExactlyOneWrite ==
    [][SecondSyncOfPair =>
          /\ pairWrites' = 1
          /\ last'.res = "False"
          /\ store' = store
          /\ disk' = disk]_vars

\* C4 amended: the two calls perform at most one disk write (none when the
\* first call already found nothing to write); the second returns False,
\* writes nothing and leaves the file, the entries, the dirty flag and the
\* recorded options as they were; the first call wrote exactly when it
\* returned True.
C4_AtMostOneWrite ==
    [][SecondSyncOfPair =>
          /\ pairWrites' \in {0, 1}
          /\ (pairWrites' = 1) = (last.res = "True")
          /\ last'.res = "False"
          /\ ~last'.wrote
          /\ store' = store
          /\ disk' = disk]_vars

C4_Witness ==
    /\ last.op = "sync" /\ last.res = "False" /\ pairWrites = 1
    /\ DOMAIN store.data # {}

\* C5: constructing a store reads nothing, and over any sequence of accessor
\* calls on one store the file is read exactly once, by the first call,
\* whether or not that read succeeds.
C5_LazySingleLoad ==
    /\ reads = (IF accessed = 0 THEN 0 ELSE 1)
    /\ last.read = (accessed = 1)
    /\ (last.op = "init" => reads = 0 /\ ~store.loaded)

C5_Witness == loadStatus = "failed" /\ accessed = MaxCount /\ reads = 1

\* C8 as stated: a sync whose write fails, at whatever point, leaves the
\* file with the complete content it had or with the complete new content.
C8_CrashSafeSync ==
    [][(last'.op = "sync" /\ last'.wfail) =>
          \/ disk' = disk
          \/ disk' = Doc(JsonDocument(_sanatize(store'.data)))]_vars

\* C9: when the file is missing or is not JSON, the first access raises no
\* load error and finds an empty store, and set and sync then work as on
\* any store.
C9_ReadFailureStartsEmpty ==
    loadStatus = "failed" =>
        /\ last.res # "LoadError"
        /\ last.read =>
              CASE last.op \in {"get", "delete"} ->
                      last.res = "KeyError" /\ store.data = EmptyMap
                [] last.op \in {"len", "iter", "copy", "keys"} ->
                      last.res = "ok" /\ last.ret = Dict(EmptyMap)
                [] last.op = "set" ->
                      last.res = "ok" /\ DOMAIN store.data = {last.key}
                [] last.op = "sync" ->
                      /\ store.data = EmptyMap
                      /\ last.res = "True" => disk = Doc(EmptyMap)
                [] OTHER -> FALSE
        /\ last.op = "set" =>
              last.res = "ok" /\ last.key \in DOMAIN store.data /\ store.needs_sync
        /\ (last.op = "sync" /\ last.res = "True") =>
              /\ disk = Doc(JsonDocument(_sanatize(store.data)))
              /\ ~store.needs_sync

C9_Witness ==
    /\ loadStatus = "failed" /\ last.op = "sync" /\ last.res = "True"
    /\ DOMAIN disk.doc # {}

\* C17 as stated: a store is marked as needing a sync exactly when a
\* caller's set or delete changed its entries since the last completed
\* write; a store that has only loaded a non-empty file is not marked.
C17_DirtyIffMutated ==
    store.exists => (store.needs_sync <=> mutated)

\* the sync of this step finds something to do: the store is marked, or the
\* options in effect differ from those of the last completed sync, or force
SyncNeeded ==
    \/ store.needs_sync
    \/ KwOr(last'.kw, store.json_kw) # store.synced_kw
    \/ last'.force

\* C18: sync rewrites the file and returns True exactly when the store is
\* marked, the options in effect differ from the recorded ones or force is
\* set (unless the write itself fails); otherwise it returns False and
\* writes nothing. After a rewrite the store is unmarked and the recorded
\* options are the ones used.
C18_SyncTriggerRule ==
    [][last'.op = "sync" =>
          /\ SyncNeeded =>
                \/ last'.wfail /\ last'.res \in {"IOError", "TypeError"}
                \/ /\ last'.res = "True" /\ last'.wrote
                   /\ disk' = Doc(JsonDocument(_sanatize(store'.data)))
                   /\ ~store'.needs_sync
                   /\ store'.synced_kw = KwOr(last'.kw, store.json_kw)
          /\ ~SyncNeeded =>
                /\ last'.res = "False" /\ ~last'.wrote /\ ~last'.wfail
                /\ disk' = disk /\ store' = store]_vars

C18_Witness ==
    /\ last.op = "sync" /\ last.res = "True" /\ last.kw = "kwA" /\ ~last.force
    /\ ~last.read /\ ~mutated
    /\ store.synced_kw = "kwA"
    /\ DOMAIN disk.doc # {}

\* C19 as stated: get, set and delete leave the file as it is, and the file
\* changes only in a sync call that returns True.
C19_NoWriteOutsideSync ==
    [][disk' # disk => last'.op = "sync" /\ last'.res = "True"]_vars

\* C20: on a loaded store, get and delete of a key that is not an entry
\* raise KeyError and leave the entries, the mark and the file as they were.
C20_KeyNotFoundUnchanged ==
    [][(/\ store.exists /\ store.loaded
        /\ last'.op \in {"get", "delete"}
        /\ last'.key \notin DOMAIN store.data) =>
          /\ last'.res = "KeyError"
          /\ store' = store
          /\ disk' = disk]_vars

C20_Witness ==
    /\ last.op = "delete" /\ last.res = "KeyError" /\ ~last.read
    /\ DOMAIN store.data # {}
    /\ ~store.needs_sync

\* json.dumps can take the value and _sanatize keeps it
Persistable(v) == v.t # "callable" /\ v.t # "JSONStore" /\ JsonSerializable(v)

\* C14: after a save that returned, the file holds, as JSON, every value
\* that json can take and that a save of this process set, under its key and
\* with the value of the key's last save, not only the key just saved.
C14_SavePersistsAll ==
    (last.op = "save" /\ last.res = "ok") =>
        /\ disk.kind = "doc"
        /\ \A k \in DOMAIN saved :
              Persistable(saved[k].value) =>
                 /\ k \in DOMAIN disk.doc
                 /\ disk.doc[k] = JsonRoundTrip(saved[k].value)

C14_Witness ==
    /\ last.op = "save" /\ last.res = "ok" /\ last.key = "y"
    /\ "x" \in DOMAIN saved
    /\ saved["x"].by # last.self
    /\ saved["x"].value = Tuple("v2")
    /\ ~saved["x"].held
    /\ disk.doc["x"] = List("v2")
    /\ disk.doc["y"] = Str("v1")

\* C15 as stated: load of a key that no save of the process was given and
\* that is no record of the file returns None and does not raise, whatever
\* the key is called.
C15_MissingKeyIsNone ==
    (/\ last.op = "load"
     /\ last.key \notin setKeys
     /\ last.key \notin DOMAIN disk.doc) =>
        /\ last.res = "ok"
        /\ last.ret = NoneV

\* C16: no step of a process takes a name out of Storage.__dict__: not a
\* construction, not a save, not a load; del on an instance raises
\* AttributeError and leaves the class, the store and the file as they were.
C16_BindingsNeverRemoved ==
    [][last'.op # "restart" =>
          /\ DOMAIN cls \subseteq DOMAIN cls'
          /\ last'.op = "delattr" =>
                /\ last'.res = "AttributeError"
                /\ cls' = cls /\ store' = store /\ disk' = disk]_vars

C16_Witness ==
    /\ last.op = "delattr" /\ last.res = "AttributeError"
    /\ last.key \in DOMAIN saved
    /\ saved[last.key].by # last.self
    /\ cls[last.key] = saved[last.key].value

LineOrder == <<"APP_NAME", "COMPANY_NAME", "UPDATE_URLS", "PUBLIC_KEY", "MAX_DOWNLOAD_RETRIES">>

FieldPresent(name) == name \in DOMAIN cfg.fields

\* C12: after a save_config that returned, client_config.py consists of one
\* line for each of APP_NAME, COMPANY_NAME, UPDATE_URLS, PUBLIC_KEY and
\* MAX_DOWNLOAD_RETRIES that is a field of the Config, in this order, and of
\* nothing else; the lines other than PUBLIC_KEY carry the fields' values.
C12_ArtifactContent ==
    (last.op = "save_config" /\ last.res = "ok") =>
        /\ artifact.exists
        /\ [i \in 1..Len(artifact.lines) |-> artifact.lines[i].name] =
              SelectSeq(LineOrder, FieldPresent)
        /\ \A i \in 1..Len(artifact.lines) :
              artifact.lines[i].name # "PUBLIC_KEY" =>
                 artifact.lines[i].value = cfg.fields[artifact.lines[i].name]

C12_Witness ==
    /\ last.op = "save_config" /\ last.res = "ok"
    /\ "APP_NAME" \notin DOMAIN cfg.fields
    /\ "PUBLIC_KEY" \in DOMAIN cfg.fields
    /\ Len(artifact.lines) = 3
    /\ artifact.lines[2] = Line("PUBLIC_KEY", "str", Str("pk"))

\* the registry has no key material, or key material without
\* ['client']['offline_public']
KeyMaterialMissing ==
    \/ "keypack" \notin DOMAIN cls
    \/ "client" \notin DOMAIN cls["keypack"].m
    \/ "offline_public" \notin DOMAIN cls["keypack"].m["client"].m

\* C13 as stated: when the key material or the path to the public key in it
\* is missing, save_config still writes client_config.py, with None as the
\* public key, and returns.
C13_MissingKeyMaterialIsNone ==
    (last.op = "save_config" /\ last.wrote /\ KeyMaterialMissing) =>
        /\ last.res = "ok"
        /\ artifact.exists
        /\ \A i \in 1..Len(artifact.lines) :
              artifact.lines[i].name = "PUBLIC_KEY" => artifact.lines[i].value = NoneV


-----------------------------------------------------------------------------
(* Storage: the document a save leaves in the file *)

\* keys given to save that are upper-case names
DocKeys == {"APP_NAME", "UPDATE_URLS"}

DocValues == {Str("v1"), List("v2"), Callable("f")}

\* self.save(key, value) with an upper-case key
SaveUpper == SaveWith(DocKeys, DocValues, Faults)

NextDoc == StorageNew \/ SaveUpper \/ Restart

SpecDoc == InitStore /\ [][NextDoc]_vars

\* C21 as stated: after a save through a Storage that wrote the file, every
\* top-level name of the file's document is upper-case; config_dir, filename,
\* _loaded_db and every other lower-case name are absent.
C21_DocKeysUpperCase ==
    (/\ last.op = "save"
     /\ last.res = "ok"
     /\ last.wrote
     /\ disk.kind = "doc") =>
        \A k \in DOMAIN disk.doc : IsUpper(k)


-----------------------------------------------------------------------------
(* Config: construction with keyword arguments *)

\* the keyword arguments callers pass besides the two flags, by name
OverrideNames == {"none", "name", "urls", "retries+urls", "internal"}

\* **kwargs of these calls: nothing, a template field, a setting that is no
\* template field, both kinds together, a lower-case field
OverrideArgs(name) ==
    CASE name = "name" -> [k \in {"APP_NAME"} |-> Str("Acme")]
      [] name = "urls" -> [k \in {"UPDATE_URLS"} |-> List("https://acme.example")]
      [] name = "retries+urls" ->
            [k \in {"MAX_DOWNLOAD_RETRIES", "UPDATE_URLS"} |->
                IF k = "UPDATE_URLS" THEN List("https://acme.example") ELSE Num("5")]
      [] name = "internal" -> [k \in {"my_name"} |-> Str("JMSwag")]
      [] OTHER -> EmptyMap

\* cfg = Config(client=..., **kwargs) without load_config
ConfigOverride ==
    \E client \in BOOLEAN, name \in OverrideNames :
       \E r \in {Config_init(Update(Kwargs(client, FALSE), OverrideArgs(name)),
                             cls, store, disk, artifact)} :
       /\ CfgCall(r, "Config(**kwargs)", name)
       /\ cfg' = IF r.res = "ok" THEN [exists |-> TRUE, fields |-> r.fields] ELSE cfg
       /\ KeepRoundTrip("stale")
       /\ CfgFrame

NextCtor == ConfigOverride \/ SetField \/ Restart

SpecCtor == InitStore /\ [][NextCtor]_vars

\* C22 as stated: after Config(**kwargs) without load_config, every field
\* named in kwargs holds the value passed, the fields of the template
\* included, and every field of the template that kwargs does not name holds
\* its default.
C22_OverridesWin ==
    (/\ last.op = "Config(**kwargs)"
     /\ last.res = "ok") =>
        /\ \A k \in DOMAIN OverrideArgs(last.key) :
              Get(cfg.fields, k) = OverrideArgs(last.key)[k]
        /\ \A k \in DOMAIN ConfigTemplate \ DOMAIN OverrideArgs(last.key) :
              Get(cfg.fields, k) = ConfigTemplate[k]

====
